---- MODULE Spec2Model ----
(***************************************************************************)
(* Model of the Mini Inbox backend (backend/main.py): the ticket store,    *)
(* GET /tickets, GET /metrics and PATCH /tickets/{ticket_id} with its n8n  *)
(* webhook notification.                                                   *)
(*                                                                         *)
(* Text values are sequences of one-character strings.  A timestamp is a   *)
(* natural number.  An absent optional value is the string None.           *)
(***************************************************************************)
EXTENDS Integers, Sequences, FiniteSets, TLC

\* ------------------------------------------------------------------ bounds
MaxTickets == 2
MaxSearchLen == 2
NumSessions == 2

\* ------------------------------------------------------------- text values
None == "None"

Alphabet == {"a", "A", "b", "%", "_"}

\* str.lower / SQL lower() on one character of the alphabet
LowerChar(c) == IF c = "A" THEN "a" ELSE c

Lower(s) == [i \in 1..Len(s) |-> LowerChar(s[i])]

\* every text of length 0..n
TextsUpTo(n) == UNION {[1..k -> Alphabet] : k \in 0..n}

\* literal substring test, the reference the search contract is stated with
Contains(text, sub) ==
    \E i \in 0..(Len(text) - Len(sub)) : SubSeq(text, i + 1, i + Len(sub)) = sub

ContainsIgnoreCase(text, sub) == Contains(Lower(text), Lower(sub))

\* SQL LIKE: % matches any run of characters, _ matches exactly one
RECURSIVE LikeMatch(_, _)
LikeMatch(pattern, text) ==
    IF pattern = << >> THEN text = << >>
    ELSE IF Head(pattern) = "%"
         THEN LikeMatch(Tail(pattern), text)
              \/ (text # << >> /\ LikeMatch(pattern, Tail(text)))
    ELSE IF Head(pattern) = "_"
         THEN text # << >> /\ LikeMatch(Tail(pattern), Tail(text))
    ELSE text # << >> /\ Head(text) = Head(pattern)
         /\ LikeMatch(Tail(pattern), Tail(text))

\* column.ilike(pattern): lower(column) LIKE lower(pattern)
ilike(column, pattern) == LikeMatch(Lower(pattern), Lower(column))

\* ------------------------------------------------------------------ seeds
\* records of a seeds/initial_tickets.json, in file order
SeedData ==
    << [created_at |-> 1, customer_name |-> <<"A", "b">>, channel |-> "Chat",
        subject |-> <<"b", "a">>, status |-> "open", priority |-> "high"],
       [created_at |-> 2, customer_name |-> <<"a", "_">>, channel |-> "Email",
        subject |-> <<"b">>, status |-> "closed", priority |-> "low"],
       [created_at |-> 1, customer_name |-> <<"b", "b">>, channel |-> "Email",
        subject |-> <<"%", "A">>, status |-> "open", priority |-> "low"] >>

\* the seed files considered: the sub-lists of SeedData of length 0..n
SeedFiles(n) ==
    UNION { { [i \in 1..k |-> SeedData[f[i]]] :
                f \in {g \in [1..k -> 1..Len(SeedData)] :
                          \A i, j \in 1..k : i < j => g[i] < g[j]} }
            : k \in 0..n }

\* the Ticket row inserted for seed item number n (autoincrement id)
SeedRow(item, n) ==
    [id |-> n, created_at |-> item.created_at,
     customer_name |-> item.customer_name, channel |-> item.channel,
     subject |-> item.subject, status |-> item.status,
     priority |-> item.priority]

\* the table after seed_database: one row per item, in file order
seed_database(seed_data) == [n \in 1..Len(seed_data) |-> SeedRow(seed_data[n], n)]

SeededStores == {seed_database(seed_data) : seed_data \in SeedFiles(MaxTickets)}

\* ------------------------------------------------------------------ state
VARIABLES
    store,        \* the tickets table: rows in insertion order
    seeded,       \* the table as seed_database left it
    request,      \* the request handled last, with the inputs it met
    response,     \* the HTTP response of that request
    log,          \* store and network effects of that request, in order
    posted,       \* JSON bodies that request POSTed to the n8n webhook
    metricsFile,  \* data/processed/metrics.json
    metricsPc,    \* position of the GET /metrics request in flight
    pc,           \* position of each concurrent PATCH session
    sess,         \* each concurrent session: its request and ORM object
    commitOrder   \* sessions in the order in which the store committed them

vars == <<store, seeded, request, response, log, posted, metricsFile,
          metricsPc, pc, sess, commitOrder>>

apiVars == <<request, response, log, posted>>
metricsVars == <<metricsFile, metricsPc>>
sessionVars == <<pc, sess, commitOrder>>

\* --------------------------------------------------------- request inputs
StatusInputs == {"pending", "open"}
PriorityInputs == {"low"}

\* TicketUpdate: both fields Optional[str] = None
TicketUpdate == [status : StatusInputs \cup {None},
                 priority : PriorityInputs \cup {None}]

\* ids a PATCH may name: every id a table can hold and one it cannot
TicketIds == 1..(MaxTickets + 1)

\* how the POST to the webhook ends
WebhookOutcomes == {"ok", "timeout", "connection_error", "http_error"}

\* the search query parameter; the empty text stands for "" and for an
\* absent parameter, which `if search:` treats alike
SearchInputs == TextsUpTo(MaxSearchLen)

\* ------------------------------------------------------- metrics artifact
AbsentFile == [exists |-> FALSE, readable |-> FALSE, text |-> << >>]

\* texts the ETL job leaves on disk: whole documents and a truncated one
MetricsTexts == { <<"{", "1", "}">>, <<"{", "2", "}">>, <<"{", "1">> }

MetricsFiles ==
    {AbsentFile} \cup [exists : {TRUE}, readable : BOOLEAN, text : MetricsTexts]

\* json.load: the document of a well-formed text, else JSONDecodeError
json_load(text) ==
    IF Len(text) = 3 /\ text[1] = "{" /\ text[3] = "}"
    THEN [ok |-> TRUE, doc |-> <<text[2]>>]
    ELSE [ok |-> FALSE, doc |-> << >>]

\* ------------------------------------------------------- requests, replies
NoRequest ==
    [op |-> "none", ticket_id |-> 0, status |-> None, priority |-> None,
     search |-> << >>, webhook |-> None, file |-> AbsentFile]

Ok(body) == [code |-> 200, body |-> body, detail |-> << >>, doc |-> << >>]

HTTPException(status_code, detail) ==
    [code |-> status_code, body |-> << >>, detail |-> detail, doc |-> << >>]

NotFoundDetail(ticket_id) == <<"Ticket com ID", ticket_id, "nao encontrado.">>
NotGeneratedDetail ==
    <<"Arquivo de metricas nao encontrado. Execute o 'python data/etl.py'.">>
InvalidJsonDetail == <<"Erro ao ler o arquivo de metricas. JSON invalido.">>
UnknownErrorDetail(e) == <<"Erro desconhecido", e>>

NoResponse == [code |-> 0, body |-> << >>, detail |-> << >>, doc |-> << >>]

\* ------------------------------------------------------------ GET /tickets
\* the search filter: subject ILIKE %search% OR customer_name ILIKE %search%
search_filter(ticket, search) ==
    \/ ilike(ticket.subject, <<"%">> \o search \o <<"%">>)
    \/ ilike(ticket.customer_name, <<"%">> \o search \o <<"%">>)

\* query = db.query(Ticket), filtered when search is truthy
filtered_query(db, search) ==
    LET Keep(ticket) == search = << >> \/ search_filter(ticket, search)
    IN  SelectSeq(db, Keep)

\* the rows arranged with timestamps non-decreasing (ORDER BY created_at ASC)
order_by_created_at_asc(rows) ==
    LET n == Len(rows)
        Perms == {p \in [1..n -> 1..n] : \A i, j \in 1..n : i # j => p[i] # p[j]}
    IN  { [i \in 1..n |-> rows[p[i]]] :
            p \in {q \in Perms : \A i, j \in 1..n :
                        i < j => rows[q[i]].created_at <= rows[q[j]].created_at} }

\* ORDER BY created_at DESC: every arrangement of the rows with timestamps
\* non-increasing; SQL leaves the order of rows with equal keys open
order_by_created_at_desc(rows) ==
    LET n == Len(rows)
        Perms == {p \in [1..n -> 1..n] : \A i, j \in 1..n : i # j => p[i] # p[j]}
    IN  { [i \in 1..n |-> rows[p[i]]] :
            p \in {q \in Perms : \A i, j \in 1..n :
                        i < j => rows[q[i]].created_at >= rows[q[j]].created_at} }

list_tickets(db, search) == order_by_created_at_desc(filtered_query(db, search))

ListTickets(search) ==
    /\ \E tickets \in list_tickets(store, search) :
           response' = Ok(tickets)
    /\ request' = [NoRequest EXCEPT !.op = "list", !.search = search]
    /\ log' = << >>
    /\ posted' = << >>
    /\ UNCHANGED <<store, seeded, metricsVars, sessionVars>>

\* --------------------------------------------------- PATCH /tickets/{id}
\* db.query(Ticket).filter(Ticket.id == ticket_id).first() found a row
has_ticket(db, ticket_id) == \E i \in 1..Len(db) : db[i].id = ticket_id

\* the row that query returns
first_ticket(db, ticket_id) ==
    db[CHOOSE i \in 1..Len(db) :
           db[i].id = ticket_id /\ \A j \in 1..(i - 1) : db[j].id # ticket_id]

\* the assignments without their `is not None` guards
apply_update_unguarded(ticket, update_data) ==
    [ticket EXCEPT !.status = update_data.status,
                   !.priority = update_data.priority]

\* the attribute assignments of update_ticket on the loaded object
apply_update(ticket, update_data) ==
    [ticket EXCEPT
        !.status = IF update_data.status # None THEN update_data.status ELSE @,
        !.priority = IF update_data.priority # None THEN update_data.priority ELSE @]

\* changes_made set whatever the payload holds
changes_made_always(update_data) == TRUE

changes_made(update_data) ==
    update_data.status # None \/ update_data.priority # None

\* the object added to the session as a new row instead of updated in place
commit_as_insert(db, loaded, ticket) ==
    Append(db, [ticket EXCEPT !.id = Len(db) + 1])

\* db.commit(): the unit of work writes the columns whose value differs from
\* the value the session loaded, to the row with the object's primary key
commit(db, loaded, ticket) ==
    [i \in 1..Len(db) |->
        IF db[i].id = loaded.id
        THEN [db[i] EXCEPT
                !.status = IF ticket.status # loaded.status
                           THEN ticket.status ELSE @,
                !.priority = IF ticket.priority # loaded.priority
                             THEN ticket.priority ELSE @]
        ELSE db[i]]

\* db.refresh(ticket): the object reloaded from its row
refresh(db, ticket) == first_ticket(db, ticket.id)

\* datetime.isoformat()
isoformat(created_at) == <<"iso-8601", created_at>>

\* TicketResponse.model_validate(ticket).model_dump(), created_at serialized
ticket_dict(ticket) == [ticket EXCEPT !.created_at = isoformat(@)]

\* send_to_n8n without its except clause
send_to_n8n_uncaught(ticket_data, outcome) ==
    [posts |-> <<ticket_data>>, raised |-> outcome # "ok"]

\* send_to_n8n posting a second time after a failure
send_to_n8n_retry(ticket_data, outcome) ==
    [posts |-> IF outcome = "ok" THEN <<ticket_data>>
               ELSE <<ticket_data, ticket_data>>,
     raised |-> FALSE]

\* send_to_n8n: one POST; RequestException (timeout, connection error,
\* raise_for_status) is caught and printed
send_to_n8n(ticket_data, outcome) ==
    [posts |-> <<ticket_data>>, raised |-> FALSE]

\* the lookup result used without the `if not ticket` check: the handler
\* goes on and fails on the missing object
ticket_not_found_unchecked(db, ticket_id) ==
    [db |-> db, log |-> << >>, posts |-> << >>,
     response |-> HTTPException(500, <<"Internal Server Error">>)]

\* `if not ticket: raise HTTPException(404, ...)`
ticket_not_found(db, ticket_id) ==
    [db |-> db, log |-> << >>, posts |-> << >>,
     response |-> HTTPException(404, NotFoundDetail(ticket_id))]

\* the whole handler: the table, the response and the effects it leaves
update_ticket(db, ticket_id, update_data, outcome) ==
    IF ~has_ticket(db, ticket_id)
    THEN ticket_not_found(db, ticket_id)
    ELSE
    LET loaded == first_ticket(db, ticket_id)
        ticket == apply_update(loaded, update_data)
    IN  IF ~changes_made(update_data)
        THEN [db |-> db, log |-> << >>, posts |-> << >>,
              response |-> Ok(<<ticket>>)]
        ELSE
        LET committed == commit(db, loaded, ticket)
            refreshed == refresh(committed, ticket)
            sent == send_to_n8n(ticket_dict(refreshed), outcome)
        IN  [db |-> committed,
             log |-> <<"commit", "refresh">>
                     \o [i \in 1..Len(sent.posts) |-> "post"],
             posts |-> sent.posts,
             response |-> IF sent.raised
                          THEN HTTPException(500, <<"Internal Server Error">>)
                          ELSE Ok(<<refreshed>>)]

UpdateTicket(ticket_id, update_data, outcome) ==
    LET result == update_ticket(store, ticket_id, update_data, outcome)
    IN  /\ store' = result.db
        /\ response' = result.response
        /\ log' = result.log
        /\ posted' = result.posts
        /\ request' = [NoRequest EXCEPT !.op = "patch",
                                        !.ticket_id = ticket_id,
                                        !.status = update_data.status,
                                        !.priority = update_data.priority,
                                        !.webhook = outcome]
        /\ UNCHANGED <<seeded, metricsVars, sessionVars>>

\* ------------------------------------------------------------ GET /metrics
\* METRICS_FILE.exists() is false: HTTPException 500 raised before the try
GetMetricsMissing ==
    /\ metricsPc = "idle"
    /\ ~metricsFile.exists
    /\ request' = [NoRequest EXCEPT !.op = "metrics", !.file = metricsFile]
    /\ response' = HTTPException(500, NotGeneratedDetail)
    /\ log' = << >>
    /\ posted' = << >>
    /\ UNCHANGED <<store, seeded, metricsVars, sessionVars>>

\* METRICS_FILE.exists() is true: the handler goes on to the try block
GetMetricsExists ==
    /\ metricsPc = "idle"
    /\ metricsFile.exists
    /\ metricsPc' = "try"
    /\ UNCHANGED <<store, seeded, apiVars, metricsFile, sessionVars>>

\* open(METRICS_FILE) and json.load(f) with the three except clauses
read_metrics(file) ==
    IF ~file.exists
    THEN HTTPException(500, UnknownErrorDetail("FileNotFoundError"))
    ELSE IF ~file.readable
    THEN HTTPException(500, UnknownErrorDetail("PermissionError"))
    ELSE IF ~json_load(file.text).ok
    THEN HTTPException(500, InvalidJsonDetail)
    ELSE [Ok(<< >>) EXCEPT !.doc = json_load(file.text).doc]

GetMetricsRead ==
    /\ metricsPc = "try"
    /\ metricsPc' = "idle"
    /\ request' = [NoRequest EXCEPT !.op = "metrics", !.file = metricsFile]
    /\ response' = read_metrics(metricsFile)
    /\ log' = << >>
    /\ posted' = << >>
    /\ UNCHANGED <<store, seeded, metricsFile, sessionVars>>

\* the ETL job (data/etl.py) or an operator rewrites or removes the artifact
EtlWrite(file) ==
    /\ file # metricsFile
    /\ metricsFile' = file
    /\ UNCHANGED <<store, seeded, apiVars, metricsPc, sessionVars>>

\* ------------------------------------------------------- sequential system
NoTicket ==
    [id |-> 0, created_at |-> 0, customer_name |-> << >>, channel |-> "",
     subject |-> << >>, status |-> None, priority |-> None]

\* a session before its request arrives
NoSession ==
    [ticket_id |-> 0, update_data |-> [status |-> None, priority |-> None],
     loaded |-> NoTicket, ticket |-> NoTicket, response |-> NoResponse,
     posts |-> << >>]

Sessions == 1..NumSessions

Init ==
    /\ store \in SeededStores
    /\ seeded = store
    /\ request = NoRequest
    /\ response = NoResponse
    /\ log = << >>
    /\ posted = << >>
    /\ metricsFile = AbsentFile
    /\ metricsPc = "idle"
    /\ pc = [s \in 1..NumSessions |-> "idle"]
    /\ sess = [s \in 1..NumSessions |-> NoSession]
    /\ commitOrder = << >>

Next ==
    \/ \E search \in SearchInputs : ListTickets(search)
    \/ \E ticket_id \in TicketIds, update_data \in TicketUpdate,
          outcome \in WebhookOutcomes :
           UpdateTicket(ticket_id, update_data, outcome)

Spec == Init /\ [][Next]_vars

\* the metrics endpoint next to the job that produces its artifact
NextMetrics ==
    \/ GetMetricsMissing
    \/ GetMetricsExists
    \/ GetMetricsRead
    \/ \E file \in MetricsFiles : EtlWrite(file)

SpecMetrics == Init /\ [][NextMetrics]_vars

\* ------------------------------------------- concurrent PATCH requests
\* Each request runs update_ticket on a session of its own (get_db); the
\* statements of different sessions interleave, the store runs each
\* statement and each commit as a unit.

\* the lookup, the attribute assignments and the early returns
Lookup(s, ticket_id, update_data) ==
    /\ pc[s] = "idle"
    /\ IF ~has_ticket(store, ticket_id)
       THEN /\ pc' = [pc EXCEPT ![s] = "not_found"]
            /\ sess' = [sess EXCEPT ![s] =
                  [NoSession EXCEPT
                      !.ticket_id = ticket_id, !.update_data = update_data,
                      !.response = ticket_not_found(store, ticket_id).response]]
       ELSE LET loaded == first_ticket(store, ticket_id)
                ticket == apply_update(loaded, update_data)
            IN  /\ pc' = [pc EXCEPT ![s] = IF changes_made(update_data)
                                           THEN "dirty" ELSE "unchanged"]
                /\ sess' = [sess EXCEPT ![s] =
                      [NoSession EXCEPT
                          !.ticket_id = ticket_id, !.update_data = update_data,
                          !.loaded = loaded, !.ticket = ticket,
                          !.response = IF changes_made(update_data)
                                       THEN NoResponse ELSE Ok(<<ticket>>)]]
    /\ UNCHANGED <<store, seeded, apiVars, metricsVars, commitOrder>>

\* db.commit()
Commit(s) ==
    /\ pc[s] = "dirty"
    /\ store' = commit(store, sess[s].loaded, sess[s].ticket)
    /\ commitOrder' = Append(commitOrder, s)
    /\ pc' = [pc EXCEPT ![s] = "committed"]
    /\ UNCHANGED <<seeded, apiVars, metricsVars, sess>>

\* db.refresh(ticket)
Refresh(s) ==
    /\ pc[s] = "committed"
    /\ sess' = [sess EXCEPT ![s].ticket = refresh(store, sess[s].ticket)]
    /\ pc' = [pc EXCEPT ![s] = "refreshed"]
    /\ UNCHANGED <<store, seeded, apiVars, metricsVars, commitOrder>>

\* send_to_n8n(ticket_dict) and return ticket
Notify(s, outcome) ==
    /\ pc[s] = "refreshed"
    /\ LET sent == send_to_n8n(ticket_dict(sess[s].ticket), outcome)
       IN  sess' = [sess EXCEPT
                      ![s].posts = sent.posts,
                      ![s].response =
                          IF sent.raised
                          THEN HTTPException(500, <<"Internal Server Error">>)
                          ELSE Ok(<<sess[s].ticket>>)]
    /\ pc' = [pc EXCEPT ![s] = "responded"]
    /\ UNCHANGED <<store, seeded, apiVars, metricsVars, commitOrder>>

NextSessions ==
    \E s \in Sessions :
        \/ \E ticket_id \in TicketIds, update_data \in TicketUpdate :
               Lookup(s, ticket_id, update_data)
        \/ Commit(s)
        \/ Refresh(s)
        \/ \E outcome \in WebhookOutcomes : Notify(s, outcome)

SpecSessions == Init /\ [][NextSessions]_vars

\* ================================================================ claims
\* the step just taken handled PATCH /tickets/{ticket_id}
PatchStep == request'.op = "patch"

\* ... and its id resolved to a ticket of the table it met
PatchFoundStep == PatchStep /\ has_ticket(store, request'.ticket_id)

\* ... and its payload provided at least one field
PatchProvidedStep ==
    PatchFoundStep /\ (request'.status # None \/ request'.priority # None)

\* the value a field must hold after an update that met the value old
Updated(provided, old) == IF provided # None THEN provided ELSE old

\* C1: when the webhook call of a PATCH on an existing ticket fails (timeout,
\* connection error, error status), the request still answers 200 with the
\* updated ticket and the provided status/priority are the stored ones.
C1_WebhookFailureDoesNotPropagate ==
    [][ (PatchProvidedStep /\ request'.webhook # "ok") =>
          LET old == first_ticket(store, request'.ticket_id)
              new == first_ticket(store', request'.ticket_id)
          IN  /\ response'.code = 200
              /\ response'.body = <<new>>
              /\ new.status = Updated(request'.status, old.status)
              /\ new.priority = Updated(request'.priority, old.priority) ]_vars

C1_Witness ==
    /\ request.op = "patch"
    /\ request.webhook = "timeout"
    /\ response.code = 200
    /\ Len(posted) = 1
    /\ store # seeded

\* C2: a PATCH whose id resolves to no ticket answers 404 with the detail
\* "Ticket com ID <id> nao encontrado.", leaves the store as it was and does
\* not call the webhook.
C2_NotFoundHasNoEffect ==
    [][ (PatchStep /\ ~has_ticket(store, request'.ticket_id)) =>
          /\ response' = HTTPException(404, NotFoundDetail(request'.ticket_id))
          /\ store' = store
          /\ log' = << >>
          /\ posted' = << >> ]_vars

C2_Witness ==
    /\ request.op = "patch"
    /\ response.code = 404
    /\ Len(store) > 0
    /\ request.status # None

\* C3: a PATCH on an existing ticket with neither status nor priority returns
\* the ticket exactly as stored, commits nothing and calls no webhook.
C3_EmptyPayloadUnchanged ==
    [][ (PatchFoundStep /\ request'.status = None /\ request'.priority = None) =>
          /\ response' = Ok(<<first_ticket(store, request'.ticket_id)>>)
          /\ store' = store
          /\ log' = << >>
          /\ posted' = << >> ]_vars

C3_Witness ==
    /\ request.op = "patch"
    /\ request.status = None
    /\ request.priority = None
    /\ response.code = 200
    /\ response.body = <<first_ticket(store, request.ticket_id)>>

\* C4: a PATCH on an existing ticket stores each provided field, keeps the
\* stored value of each absent field, and the response carries both.
C4_OnlyProvidedFieldsChange ==
    [][ PatchFoundStep =>
          LET old == first_ticket(store, request'.ticket_id)
              new == first_ticket(store', request'.ticket_id)
          IN  /\ new.status = Updated(request'.status, old.status)
              /\ new.priority = Updated(request'.priority, old.priority)
              /\ Len(response'.body) = 1
              /\ response'.body[1].status = new.status
              /\ response'.body[1].priority = new.priority ]_vars

C4_Witness ==
    /\ request.op = "patch"
    /\ request.status = "pending"
    /\ request.priority = None
    /\ response.code = 200
    /\ response.body[1].status = "pending"
    /\ response.body[1].priority = "high"
    /\ seeded[request.ticket_id].status = "open"

\* the ticket is among those a list response returned
Returned(ticket) == \E j \in 1..Len(response.body) : response.body[j].id = ticket.id

\* C5: GET /tickets returns exactly the tickets whose subject or customer name
\* contains the search text, case-insensitively, as a literal substring (also
\* for texts holding % or _); with no search text it returns every ticket.
C5_SearchIsLiteralSubstring ==
    request.op = "list" =>
        \A i \in 1..Len(store) :
            Returned(store[i]) <=>
                \/ request.search = << >>
                \/ ContainsIgnoreCase(store[i].subject, request.search)
                \/ ContainsIgnoreCase(store[i].customer_name, request.search)

\* the body of a list response has timestamps non-increasing
SortedByCreatedAtDesc(body) ==
    \A i, j \in 1..Len(body) : i < j => body[i].created_at >= body[j].created_at

\* tickets of equal timestamp come in insertion order (ids are assigned in
\* insertion order)
TiesInInsertionOrder(body) ==
    \A i, j \in 1..Len(body) :
        (i < j /\ body[i].created_at = body[j].created_at) => body[i].id < body[j].id

\* C6 as stated: GET /tickets orders its result by creation timestamp
\* descending, tickets of equal timestamp in insertion order.
C6_ListOrderStable ==
    request.op = "list" =>
        SortedByCreatedAtDesc(response.body) /\ TiesInInsertionOrder(response.body)

\* C6 as amended: GET /tickets, with or without a search text, returns each
\* selected ticket once, ordered by creation timestamp descending; the order
\* among tickets of equal timestamp is not fixed.
C6_ListOrderedByCreatedAtDesc ==
    request.op = "list" =>
        /\ SortedByCreatedAtDesc(response.body)
        /\ Len(response.body) = Len(filtered_query(store, request.search))
        /\ \A i \in 1..Len(store) :
               search_filter(store[i], request.search) => Returned(store[i])

C6_Witness ==
    /\ request.op = "list"
    /\ Len(response.body) = 2
    /\ response.body[1].created_at > response.body[2].created_at
    /\ response.body[1].id > response.body[2].id

\* C7: GET /metrics answers by the condition of the file it meets: absent ->
\* 500 "not generated"; valid JSON -> 200 with the document; malformed -> 500
\* "invalid JSON"; unreadable -> 500 generic; a file absent when it is opened
\* is reported as "not generated".  request.file is the file as the handler
\* met it at its last access.
C7_MetricsOutcomeByFile ==
    request.op = "metrics" =>
        LET file == request.file
        IN  /\ ~file.exists => response = HTTPException(500, NotGeneratedDetail)
            /\ (file.exists /\ ~file.readable) =>
                   (response.code = 500 /\ response.detail[1] = "Erro desconhecido")
            /\ (file.exists /\ file.readable /\ ~json_load(file.text).ok) =>
                   response = HTTPException(500, InvalidJsonDetail)
            /\ (file.exists /\ file.readable /\ json_load(file.text).ok) =>
                   (response.code = 200 /\ response.doc = <<file.text[2]>>)

\* the fields of a ticket that no operation writes
Immutable(ticket) ==
    <<ticket.id, ticket.created_at, ticket.customer_name, ticket.channel,
      ticket.subject>>

TicketsPreserved ==
    /\ Len(store) = Len(seeded)
    /\ \A i \in 1..Len(store) : Immutable(store[i]) = Immutable(seeded[i])
    /\ \A i, j \in 1..Len(store) : i # j => store[i].id # store[j].id

\* C8: requests never create or delete a ticket, ids stay unique, and id,
\* creation timestamp, customer name, channel and subject keep their values
\* of creation; the store changes only in a PATCH step.
C8_OnlyStatusAndPriorityChange ==
    /\ []TicketsPreserved
    /\ [][store' # store => PatchStep]_vars

C8_Witness ==
    /\ Len(store) >= 2
    /\ \A i \in 1..Len(store) : store[i].status # seeded[i].status
    /\ \E i \in 1..Len(store) : store[i].priority # seeded[i].priority

\* C9: a PATCH on an existing ticket that provides a field calls the webhook
\* exactly once, after the commit, with the serialized post-update ticket,
\* whatever the outcome of the call (no retry).
C9_NotifiedOnceAfterCommit ==
    [][ PatchProvidedStep =>
          LET new == first_ticket(store', request'.ticket_id)
              posts == {i \in 1..Len(log') : log'[i] = "post"}
              commits == {i \in 1..Len(log') : log'[i] = "commit"}
          IN  /\ Cardinality(posts) = 1
              /\ Cardinality(commits) = 1
              /\ \A i \in posts : \A c \in commits : c < i
              /\ posted' = <<ticket_dict(new)>>
              /\ new.status = Updated(request'.status, first_ticket(store, request'.ticket_id).status)
              /\ new.priority = Updated(request'.priority, first_ticket(store, request'.ticket_id).priority) ]_vars

C9_Witness ==
    /\ request.op = "patch"
    /\ request.webhook = "http_error"
    /\ log = <<"commit", "refresh", "post">>
    /\ Len(posted) = 1
    /\ posted[1].status = request.status
    /\ posted[1].status # seeded[request.ticket_id].status

\* sessions whose commit wrote, or should have written, field of ticket_id
Writers(ticket_id, field) ==
    {s \in Sessions : /\ pc[s] \in {"committed", "refreshed", "responded"}
                      /\ sess[s].ticket_id = ticket_id
                      /\ sess[s].update_data[field] # None}

\* the writer the store committed last
LastWriter(writers) ==
    CHOOSE s \in writers :
        \E i \in 1..Len(commitOrder) :
            /\ commitOrder[i] = s
            /\ \A j \in (i + 1)..Len(commitOrder) : commitOrder[j] \notin writers

\* C10: when interleaved PATCH requests on one ticket have committed, each
\* field holds the value of the last committed request that provided it.
C10_FieldLevelLastWriteWins ==
    (\A s \in Sessions : pc[s] # "dirty") =>
        \A i \in 1..Len(store) : \A field \in {"status", "priority"} :
            LET writers == Writers(store[i].id, field)
            IN  writers # {} =>
                    store[i][field] = sess[LastWriter(writers)].update_data[field]

====
